---- MODULE Spec2Model ----
(***************************************************************************)
(* Model of src/functions.py: slice extraction from 3D/4D volumes and the  *)
(* calls the three plotting functions issue to the plotting backend.       *)
(*                                                                         *)
(* An array is a record [shape, data]: shape is the sequence of axis       *)
(* sizes, data maps every 0-based index tuple to the value stored there.   *)
(* A call is one action; it records its arguments, its outcome and the     *)
(* sequence of backend operations it issued before it returned or raised.  *)
(***************************************************************************)
EXTENDS Integers, Sequences, FiniteSets, TLC

VARIABLES pc, call, outcome, ret, ops

vars == <<pc, call, outcome, ret, ops>>

\* ---------------------------------------------------------------- bounds
MaxDim == 2
MaxT == 2

\* ---------------------------------------------------------------- arrays
AxisMax(shape) ==
  IF Len(shape) = 0 THEN 0
  ELSE CHOOSE x \in {shape[m] : m \in 1..Len(shape)} :
         \A m \in 1..Len(shape) : shape[m] <= x

\* all 0-based index tuples of an array of the given shape
IndexSet(shape) ==
  {f \in [1..Len(shape) -> 0..(AxisMax(shape) - 1)] :
      \A m \in 1..Len(shape) : f[m] < shape[m]}

All == [all |-> TRUE, i |-> 0]

At(i) == [all |-> FALSE, i |-> i]

\* numpy accepts an integer index n on an axis of size d iff -d <= n < d
InBounds(n, d) == -d <= n /\ n < d

\* a negative index counts from the end of the axis
NormIndex(n, d) == IF n < 0 THEN n + d ELSE n

Rank(key, m) == Cardinality({q \in 1..m : key[q].all})

KeptAxes(key) ==
  [r \in 1..Rank(key, Len(key)) |->
      CHOOSE m \in 1..Len(key) : key[m].all /\ Rank(key, m) = r]

FullIndex(shape, key, idx) ==
  [m \in 1..Len(key) |->
      IF key[m].all THEN idx[Rank(key, m)] ELSE NormIndex(key[m].i, shape[m])]

\* variant: an index out of bounds wraps around instead of raising
GetItem_wrap(arr, key) ==
  LET kept == KeptAxes(key)
      shp == [r \in 1..Len(kept) |-> arr.shape[kept[r]]]
      wrapped == [m \in 1..Len(key) |->
                    IF key[m].all THEN key[m]
                    ELSE At(key[m].i % arr.shape[m])]
  IN [status |-> "ok",
      value |-> [shape |-> shp,
                 data |-> [idx \in IndexSet(shp) |->
                             arr.data[FullIndex(arr.shape, wrapped, idx)]]]]

\* basic indexing arr[key]: integers fix an axis, ':' keeps it
GetItem(arr, key) ==
  IF \E m \in 1..Len(key) : ~key[m].all /\ ~InBounds(key[m].i, arr.shape[m])
  THEN [status |-> "IndexError"]
  ELSE LET kept == KeptAxes(key)
           shp == [r \in 1..Len(kept) |-> arr.shape[kept[r]]]
       IN [status |-> "ok",
           value |-> [shape |-> shp,
                      data |-> [idx \in IndexSet(shp) |->
                                  arr.data[FullIndex(arr.shape, key, idx)]]]]

\* ndarray.T of a 2D array
Transpose(arr) ==
  LET shp == <<arr.shape[2], arr.shape[1]>>
  IN [shape |-> shp,
      data |-> [idx \in IndexSet(shp) |-> arr.data[<<idx[2], idx[1]>>]]]

\* ------------------------------------------------------------ _get_slice
Orientations == {"sagittal", "frontal", "axial"}

Raise(err) == [status |-> err]

Return3(r, x_lab, y_lab) ==
  IF r.status # "ok" THEN Raise(r.status)
  ELSE [status |-> "ok", Slice |-> r.value, x_lab |-> x_lab, y_lab |-> y_lab]

\* variant: the last branch is a plain else
_get_slice_else_axial(image, orientation, slice_nr) ==
  IF orientation = "sagittal"
  THEN Return3(GetItem(image, <<At(slice_nr), All, All>>),
               "Antero-posterior", "Cranio-caudal")
  ELSE IF orientation = "frontal"
  THEN Return3(GetItem(image, <<All, At(slice_nr), All>>),
               "Medio-lateral", "Cranio-caudal")
  ELSE Return3(GetItem(image, <<All, All, At(slice_nr)>>),
               "Medio-lateral", "Antero-posterior")

\* variant: the axial branch indexes the axis of the frontal branch
_get_slice_axial_on_AP(image, orientation, slice_nr) ==
  IF orientation = "sagittal"
  THEN Return3(GetItem(image, <<At(slice_nr), All, All>>),
               "Antero-posterior", "Cranio-caudal")
  ELSE IF orientation = "frontal"
  THEN Return3(GetItem(image, <<All, At(slice_nr), All>>),
               "Medio-lateral", "Cranio-caudal")
  ELSE IF orientation = "axial"
  THEN Return3(GetItem(image, <<All, At(slice_nr), All>>),
               "Medio-lateral", "Antero-posterior")
  ELSE Raise("UnboundLocalError")

\* variant: x_lab and y_lab of the sagittal branch are exchanged
_get_slice_labels_swapped(image, orientation, slice_nr) ==
  IF orientation = "sagittal"
  THEN Return3(GetItem(image, <<At(slice_nr), All, All>>),
               "Cranio-caudal", "Antero-posterior")
  ELSE IF orientation = "frontal"
  THEN Return3(GetItem(image, <<All, At(slice_nr), All>>),
               "Medio-lateral", "Cranio-caudal")
  ELSE IF orientation = "axial"
  THEN Return3(GetItem(image, <<All, All, At(slice_nr)>>),
               "Medio-lateral", "Antero-posterior")
  ELSE Raise("UnboundLocalError")

\* an unrecognised tag leaves Slice, x_lab and y_lab unassigned, so the
\* return statement raises UnboundLocalError
_get_slice(image, orientation, slice_nr) ==
  IF orientation = "sagittal"
  THEN Return3(GetItem(image, <<At(slice_nr), All, All>>),
               "Antero-posterior", "Cranio-caudal")
  ELSE IF orientation = "frontal"
  THEN Return3(GetItem(image, <<All, At(slice_nr), All>>),
               "Medio-lateral", "Cranio-caudal")
  ELSE IF orientation = "axial"
  THEN Return3(GetItem(image, <<All, All, At(slice_nr)>>),
               "Medio-lateral", "Antero-posterior")
  ELSE Raise("UnboundLocalError")

\* ------------------------------------------------------- backend calls
Op(name, ax, arg) == [op |-> name, ax |-> ax, arg |-> arg]

\* the f-string '{orientation} slice #{slice_nr}'
Title(orientation, slice_nr) == <<orientation, " slice #", slice_nr>>

\* set_title, set_xlabel, set_ylabel, imshow(Slice.T, origin="lower")
DrawSlice(ax, g, orientation, slice_nr, cmap, fontsize) ==
  << Op("set_title", ax, <<Title(orientation, slice_nr), fontsize>>),
     Op("set_xlabel", ax, <<g.x_lab, fontsize>>),
     Op("set_ylabel", ax, <<g.y_lab, fontsize>>),
     Op("imshow", ax, [image |-> Transpose(g.Slice), cmap |-> cmap,
                       origin |-> "lower"]) >>

show_anatomical_slice(image, orientation, slice_nr) ==
  LET g == _get_slice(image, orientation, slice_nr)
  IN IF g.status # "ok" THEN [status |-> g.status, ops |-> <<>>]
     ELSE [status |-> "ok",
           ops |-> <<Op("subplots", "ax", <<8, 8>>)>>
                   \o DrawSlice("ax", g, orientation, slice_nr, "gray", 20)]

\* variant: the sub-volume is always taken at the first timepoint
show_functional_slice_first_timepoint(image, orientation, slice_nr, timepoint, color_map) ==
  LET image_3D == GetItem(image, <<All, All, All, At(0)>>)
  IN IF image_3D.status # "ok"
     THEN [status |-> image_3D.status, ops |-> <<>>]
     ELSE LET g == _get_slice(image_3D.value, orientation, slice_nr)
          IN IF g.status # "ok" THEN [status |-> g.status, ops |-> <<>>]
             ELSE [status |-> "ok",
                   ops |-> <<Op("subplots", "ax", <<8, 8>>)>>
                           \o DrawSlice("ax", g, orientation, slice_nr,
                                        color_map, 20)]

show_functional_slice(image, orientation, slice_nr, timepoint, color_map) ==
  LET image_3D == GetItem(image, <<All, All, All, At(timepoint)>>)
  IN IF image_3D.status # "ok"
     THEN [status |-> image_3D.status, ops |-> <<>>]
     ELSE LET g == _get_slice(image_3D.value, orientation, slice_nr)
          IN IF g.status # "ok" THEN [status |-> g.status, ops |-> <<>>]
             ELSE [status |-> "ok",
                   ops |-> <<Op("subplots", "ax", <<8, 8>>)>>
                           \o DrawSlice("ax", g, orientation, slice_nr,
                                        color_map, 20)]

\* ----------------------------------------------------------- track_voxel
\* list.remove(x): deletes the first element equal to x
ListRemove(s, x) ==
  IF \A n \in 1..Len(s) : s[n] # x THEN Raise("ValueError")
  ELSE LET n == CHOOSE q \in 1..Len(s) :
                  s[q] = x /\ \A r \in 1..(q - 1) : s[r] # x
       IN [status |-> "ok",
           value |-> SubSeq(s, 1, n - 1) \o SubSeq(s, n + 1, Len(s))]

\* variant: the positions are zipped in the order [AP, ML, CC]
LoopItems_misordered(ML_position, AP_position, CC_position) ==
  << [orientation |-> "sagittal", ax |-> "axSagit", slice_nr |-> AP_position],
     [orientation |-> "frontal", ax |-> "axFront", slice_nr |-> ML_position],
     [orientation |-> "axial", ax |-> "axAxial", slice_nr |-> CC_position] >>

\* zip(['sagittal','frontal','axial'], [axSagit,axFront,axAxial], [ML,AP,CC])
LoopItems(ML_position, AP_position, CC_position) ==
  << [orientation |-> "sagittal", ax |-> "axSagit", slice_nr |-> ML_position],
     [orientation |-> "frontal", ax |-> "axFront", slice_nr |-> AP_position],
     [orientation |-> "axial", ax |-> "axAxial", slice_nr |-> CC_position] >>

\* the marker drawn on one panel when plot_voxel_in_slice is set
Marker(item, ML_position, AP_position, CC_position, voxel_color) ==
  LET x_y_voxel == ListRemove(<<ML_position, AP_position, CC_position>>,
                              item.slice_nr)
  IN IF x_y_voxel.status # "ok" THEN [status |-> x_y_voxel.status, ops |-> <<>>]
     ELSE [status |-> "ok",
           ops |-> <<Op("scatter", item.ax,
                        [x |-> x_y_voxel.value[1], y |-> x_y_voxel.value[2],
                         color |-> voxel_color])>>]

\* one iteration of the for-loop
Panel(image, item, ML_position, AP_position, CC_position, slice_timepoint, color_map, voxel_color, plot_voxel_in_slice) ==
  LET image_3D == GetItem(image, <<All, All, All, At(slice_timepoint)>>)
  IN IF image_3D.status # "ok"
     THEN [status |-> image_3D.status, ops |-> <<>>]
     ELSE LET g == _get_slice(image_3D.value, item.orientation, item.slice_nr)
          IN IF g.status # "ok" THEN [status |-> g.status, ops |-> <<>>]
             ELSE LET drawn == DrawSlice(item.ax, g, item.orientation,
                                         item.slice_nr, color_map, 18)
                      m == Marker(item, ML_position, AP_position, CC_position,
                                  voxel_color)
                  IN IF ~plot_voxel_in_slice
                     THEN [status |-> "ok", ops |-> drawn]
                     ELSE [status |-> m.status, ops |-> drawn \o m.ops]

\* the for-loop from its n-th item on; an exception ends it
RECURSIVE PanelsFrom(_, _, _, _, _, _, _, _, _, _)
PanelsFrom(n, items, image, ML_position, AP_position, CC_position, slice_timepoint, color_map, voxel_color, plot_voxel_in_slice) ==
  IF n > Len(items) THEN [status |-> "ok", ops |-> <<>>]
  ELSE LET p == Panel(image, items[n], ML_position, AP_position, CC_position,
                      slice_timepoint, color_map, voxel_color,
                      plot_voxel_in_slice)
       IN IF p.status # "ok" THEN p
          ELSE LET rest == PanelsFrom(n + 1, items, image, ML_position,
                                      AP_position, CC_position,
                                      slice_timepoint, color_map, voxel_color,
                                      plot_voxel_in_slice)
               IN [status |-> rest.status, ops |-> p.ops \o rest.ops]

FigureSetup ==
  << Op("figure", "fig", <<>>),
     Op("set_figheight", "fig", <<20>>),
     Op("set_figwidth", "fig", <<20>>),
     Op("subplot2grid", "axSagit", <<0, 0, 1>>),
     Op("subplot2grid", "axFront", <<0, 1, 1>>),
     Op("subplot2grid", "axAxial", <<0, 2, 2>>),
     Op("subplot2grid", "axTime", <<1, 0, 3>>) >>

TimePlot(voxel_over_time) ==
  << Op("plot", "axTime", voxel_over_time),
     Op("set_title", "axTime", <<"BOLD signal inside voxel over time", 18>>),
     Op("set_xlabel", "axTime", <<"Timepoint", 18>>),
     Op("set_ylabel", "axTime", <<"BOLD signal", 18>>),
     Op("show", "plt", <<>>) >>

\* variant: the series is read at [AP, ML, CC, :]
track_voxel_swapped_coordinates(image, ML_position, AP_position, CC_position, slice_timepoint, color_map, voxel_color, plot_voxel_in_slice) ==
  LET voxel_over_time ==
        GetItem(image, <<At(AP_position), At(ML_position), At(CC_position), All>>)
  IN IF voxel_over_time.status # "ok"
     THEN [status |-> voxel_over_time.status, ops |-> <<>>]
     ELSE LET loop == PanelsFrom(1, LoopItems(ML_position, AP_position, CC_position),
                                 image, ML_position, AP_position, CC_position,
                                 slice_timepoint, color_map, voxel_color,
                                 plot_voxel_in_slice)
          IN IF loop.status # "ok"
             THEN [status |-> loop.status, ops |-> FigureSetup \o loop.ops]
             ELSE [status |-> "ok",
                   ops |-> FigureSetup \o loop.ops
                           \o TimePlot(voxel_over_time.value)]

track_voxel(image, ML_position, AP_position, CC_position, slice_timepoint, color_map, voxel_color, plot_voxel_in_slice) ==
  LET voxel_over_time ==
        GetItem(image, <<At(ML_position), At(AP_position), At(CC_position), All>>)
  IN IF voxel_over_time.status # "ok"
     THEN [status |-> voxel_over_time.status, ops |-> <<>>]
     ELSE LET loop == PanelsFrom(1, LoopItems(ML_position, AP_position, CC_position),
                                 image, ML_position, AP_position, CC_position,
                                 slice_timepoint, color_map, voxel_color,
                                 plot_voxel_in_slice)
          IN IF loop.status # "ok"
             THEN [status |-> loop.status, ops |-> FigureSetup \o loop.ops]
             ELSE [status |-> "ok",
                   ops |-> FigureSetup \o loop.ops
                           \o TimePlot(voxel_over_time.value)]

\* ---------------------------------------------------------------- inputs
RECURSIVE Linear(_, _, _)
Linear(idx, shape, n) ==
  IF n = 0 THEN 0 ELSE Linear(idx, shape, n - 1) * shape[n] + idx[n]

\* a volume with a different grey value in every cell: the functions only
\* move values around, so any other volume is an image of this one
Volume(shape) ==
  [shape |-> shape,
   data |-> [idx \in IndexSet(shape) |-> Linear(idx, shape, Len(shape))]]

Shapes3 == {<<a, b, c>> : a \in 1..MaxDim, b \in 1..MaxDim, c \in 1..MaxDim}

Shapes4 == {<<s[1], s[2], s[3], t>> : s \in Shapes3, t \in 1..MaxT}

Images3 == {Volume(s) : s \in Shapes3}

Images4 == {Volume(s) : s \in Shapes4}

\* indices offered for an axis of size d: every valid one, and one beyond
\* each end
Indices(d) == (-(d + 1))..d

Tags == Orientations \cup {"coronal", "Axial"}

Styles == { [color_map |-> "coolwarm", voxel_color |-> "white"],
            [color_map |-> "gray", voxel_color |-> "red"] }

AxisOf(orientation) ==
  IF orientation = "sagittal" THEN 1 ELSE IF orientation = "frontal" THEN 2 ELSE 3

\* the axis an index is offered for; an unrecognised tag fixes no axis
IndicesFor(image, orientation) ==
  IF orientation \in Orientations THEN Indices(image.shape[AxisOf(orientation)])
  ELSE Indices(image.shape[1])

\* ----------------------------------------------------------- state machine
NoCall == [fn |-> "none"]

NoReturn == [returned |-> FALSE]

Init ==
  /\ pc = "idle"
  /\ call = NoCall
  /\ outcome = "none"
  /\ ret = NoReturn
  /\ ops = <<>>

CallGetSlice ==
  /\ pc = "idle"
  /\ \E image \in Images3 :
     \E orientation \in Tags :
     \E slice_nr \in IndicesFor(image, orientation) :
       LET g == _get_slice(image, orientation, slice_nr)
       IN /\ call' = [fn |-> "_get_slice", image |-> image,
                      orientation |-> orientation, slice_nr |-> slice_nr]
          /\ outcome' = g.status
          /\ ret' = IF g.status = "ok"
                    THEN [returned |-> TRUE, Slice |-> g.Slice,
                          x_lab |-> g.x_lab, y_lab |-> g.y_lab]
                    ELSE NoReturn
          /\ ops' = <<>>
  /\ pc' = "done"

CallShowAnatomicalSlice ==
  /\ pc = "idle"
  /\ \E image \in Images3 :
     \E orientation \in Tags :
     \E slice_nr \in IndicesFor(image, orientation) :
       LET r == show_anatomical_slice(image, orientation, slice_nr)
       IN /\ call' = [fn |-> "show_anatomical_slice", image |-> image,
                      orientation |-> orientation, slice_nr |-> slice_nr]
          /\ outcome' = r.status
          /\ ops' = r.ops
  /\ ret' = NoReturn
  /\ pc' = "done"

CallShowFunctionalSlice ==
  /\ pc = "idle"
  /\ \E image \in Images4 :
     \E orientation \in Tags :
     \E slice_nr \in IndicesFor(image, orientation) :
     \E timepoint \in Indices(image.shape[4]) :
     \E style \in Styles :
       LET r == show_functional_slice(image, orientation, slice_nr, timepoint,
                                      style.color_map)
       IN /\ call' = [fn |-> "show_functional_slice", image |-> image,
                      orientation |-> orientation, slice_nr |-> slice_nr,
                      timepoint |-> timepoint, color_map |-> style.color_map]
          /\ outcome' = r.status
          /\ ops' = r.ops
  /\ ret' = NoReturn
  /\ pc' = "done"

CallTrackVoxel ==
  /\ pc = "idle"
  /\ \E image \in Images4 :
     \E ML_position \in Indices(image.shape[1]) :
     \E AP_position \in Indices(image.shape[2]) :
     \E CC_position \in Indices(image.shape[3]) :
     \E slice_timepoint \in Indices(image.shape[4]) :
     \E style \in Styles :
     \E plot_voxel_in_slice \in BOOLEAN :
       LET r == track_voxel(image, ML_position, AP_position, CC_position,
                            slice_timepoint, style.color_map,
                            style.voxel_color, plot_voxel_in_slice)
       IN /\ call' = [fn |-> "track_voxel", image |-> image,
                      ML_position |-> ML_position, AP_position |-> AP_position,
                      CC_position |-> CC_position,
                      slice_timepoint |-> slice_timepoint,
                      color_map |-> style.color_map,
                      voxel_color |-> style.voxel_color,
                      plot_voxel_in_slice |-> plot_voxel_in_slice]
          /\ outcome' = r.status
          /\ ops' = r.ops
  /\ ret' = NoReturn
  /\ pc' = "done"

\* control is back with the caller; nothing of the call is kept
Finish ==
  /\ pc = "done"
  /\ pc' = "idle"
  /\ call' = NoCall
  /\ outcome' = "none"
  /\ ret' = NoReturn
  /\ ops' = <<>>

Next ==
  \/ CallGetSlice
  \/ CallShowAnatomicalSlice
  \/ CallShowFunctionalSlice
  \/ CallTrackVoxel
  \/ Finish

Spec == Init /\ [][Next]_vars

\* ------------------------------------------------------------ properties
InRange(n, d) == 0 <= n /\ n < d

Positions(name) == {n \in 1..Len(ops) : ops[n].op = name}

\* the n-th operation of the given kind issued by the call
Nth(name, n) ==
  ops[CHOOSE q \in Positions(name) :
        Cardinality({r \in Positions(name) : r <= q}) = n]

Slicers == {"_get_slice", "show_anatomical_slice", "show_functional_slice"}

Renderers == {"show_anatomical_slice", "show_functional_slice", "track_voxel"}

TrackedInRange ==
  /\ call.fn = "track_voxel"
  /\ InRange(call.ML_position, call.image.shape[1])
  /\ InRange(call.AP_position, call.image.shape[2])
  /\ InRange(call.CC_position, call.image.shape[3])

\* C1: with the overlay enabled, the marker of the sagittal panel is at
\* (AP, CC), that of the frontal panel at (ML, CC) and that of the axial
\* panel at (ML, AP), for every position triple inside the volume, repeated
\* values included.
C1_MarkerDropsFixedCoordinate ==
  (TrackedInRange /\ outcome = "ok" /\ call.plot_voxel_in_slice) =>
    /\ Cardinality(Positions("scatter")) = 3
    /\ Nth("scatter", 1).ax = "axSagit"
    /\ Nth("scatter", 1).arg.x = call.AP_position
    /\ Nth("scatter", 1).arg.y = call.CC_position
    /\ Nth("scatter", 2).ax = "axFront"
    /\ Nth("scatter", 2).arg.x = call.ML_position
    /\ Nth("scatter", 2).arg.y = call.CC_position
    /\ Nth("scatter", 3).ax = "axAxial"
    /\ Nth("scatter", 3).arg.x = call.ML_position
    /\ Nth("scatter", 3).arg.y = call.AP_position

\* C2 as stated: with a recognised orientation, a slice index outside
\* 0..d-1 for its axis, and a voxel coordinate outside 0..d-1 for its axis,
\* makes the call fail with IndexError and return no slice.
C2_OutsideZeroBasedRangeFails ==
  /\ (/\ call.fn \in Slicers
      /\ call.orientation \in Orientations
      /\ ~InRange(call.slice_nr, call.image.shape[AxisOf(call.orientation)]))
       => (outcome = "IndexError" /\ ~ret.returned)
  /\ (call.fn = "track_voxel" /\ ~TrackedInRange) => outcome = "IndexError"

\* C2 amended: with a recognised orientation, a slice index outside
\* -d..d-1 for its axis, and a voxel coordinate outside -d..d-1 for its
\* axis, makes the call fail with IndexError; no slice is returned and
\* nothing is drawn.
C2_OutsideSignedRangeFails ==
  /\ (/\ call.fn \in Slicers
      /\ call.orientation \in Orientations
      /\ LET d == call.image.shape[AxisOf(call.orientation)]
         IN call.slice_nr < -d \/ call.slice_nr >= d)
       => (outcome = "IndexError" /\ ~ret.returned /\ ops = <<>>)
  /\ (/\ call.fn = "track_voxel"
      /\ \/ call.ML_position < -call.image.shape[1]
         \/ call.ML_position >= call.image.shape[1]
         \/ call.AP_position < -call.image.shape[2]
         \/ call.AP_position >= call.image.shape[2]
         \/ call.CC_position < -call.image.shape[3]
         \/ call.CC_position >= call.image.shape[3])
       => (outcome = "IndexError" /\ ops = <<>>)

C2_Witness ==
  /\ call.fn = "_get_slice"
  /\ call.orientation = "frontal"
  /\ call.slice_nr = -(call.image.shape[2] + 1)
  /\ outcome = "IndexError"

\* C3: for an orientation tag outside {sagittal, frontal, axial} the call
\* fails with an error; no (slice, x-label, y-label) result is returned and
\* no slice is rendered.
C3_UnknownOrientationFails ==
  (call.fn \in Slicers /\ call.orientation \notin Orientations) =>
    /\ outcome \in {"UnboundLocalError", "IndexError"}
    /\ ~ret.returned
    /\ Positions("imshow") = {}

C3_Witness ==
  /\ call.fn = "_get_slice"
  /\ call.orientation = "coronal"
  /\ InRange(call.slice_nr, call.image.shape[1])
  /\ outcome = "UnboundLocalError"

\* C4: when a call of show_anatomical_slice, show_functional_slice or
\* track_voxel fails, it has issued no plotting-backend operation.
C4_FailureBeforeAnyDrawing ==
  (call.fn \in Renderers /\ outcome # "ok") => ops = <<>>

\* C5: for a recognised orientation and an index s in 0..d-1 of the fixed
\* axis, _get_slice returns a 2D array of shape (d1,d2), (d0,d2) or (d0,d1)
\* whose element [a,b] is the volume element with the fixed axis at s and
\* the retained axes at a and b.
C5_SliceShapeAndElements ==
  (/\ call.fn = "_get_slice"
   /\ call.orientation \in Orientations
   /\ InRange(call.slice_nr, call.image.shape[AxisOf(call.orientation)])) =>
    LET d == call.image.shape
        s == call.slice_nr
        o == call.orientation
        shp == IF o = "sagittal" THEN <<d[2], d[3]>>
               ELSE IF o = "frontal" THEN <<d[1], d[3]>> ELSE <<d[1], d[2]>>
    IN /\ outcome = "ok"
       /\ ret.returned
       /\ ret.Slice.shape = shp
       /\ DOMAIN ret.Slice.data = {<<a, b>> : a \in 0..(shp[1] - 1),
                                              b \in 0..(shp[2] - 1)}
       /\ \A a \in 0..(shp[1] - 1), b \in 0..(shp[2] - 1) :
            ret.Slice.data[<<a, b>>] =
              call.image.data[IF o = "sagittal" THEN <<s, a, b>>
                              ELSE IF o = "frontal" THEN <<a, s, b>>
                              ELSE <<a, b, s>>]

C5_Witness ==
  /\ call.fn = "_get_slice"
  /\ call.orientation = "frontal"
  /\ call.image.shape = <<2, 2, 1>>
  /\ call.slice_nr = 1
  /\ ret.returned
  /\ ret.Slice.shape = <<2, 1>>

AxisNames == <<"Medio-lateral", "Antero-posterior", "Cranio-caudal">>

\* C6: the returned labels are (Antero-posterior, Cranio-caudal) for
\* sagittal, (Medio-lateral, Cranio-caudal) for frontal and (Medio-lateral,
\* Antero-posterior) for axial: the x-label names the first retained axis
\* and the y-label the second.
C6_LabelsNameRetainedAxes ==
  (call.fn = "_get_slice" /\ ret.returned) =>
    LET o == call.orientation
        first == IF o = "sagittal" THEN 2 ELSE 1
        second == IF o = "axial" THEN 2 ELSE 3
    IN /\ o \in Orientations
       /\ {first, second} = (1..3) \ {AxisOf(o)}
       /\ ret.x_lab = AxisNames[first]
       /\ ret.y_lab = AxisNames[second]
       /\ <<ret.x_lab, ret.y_lab>> =
            IF o = "sagittal" THEN <<"Antero-posterior", "Cranio-caudal">>
            ELSE IF o = "frontal" THEN <<"Medio-lateral", "Cranio-caudal">>
            ELSE <<"Medio-lateral", "Antero-posterior">>

C6_Witness ==
  /\ call.fn = "_get_slice"
  /\ call.orientation = "sagittal"
  /\ ret.returned
  /\ ret.x_lab = "Antero-posterior"
  /\ ret.y_lab = "Cranio-caudal"

\* C7: for a recognised orientation, a slice index in 0..d-1 and a
\* timepoint in 0..T-1, show_functional_slice renders the slice and labels
\* that _get_slice returns for the 3D volume holding image[i,j,k,t] at
\* [i,j,k].
C7_FunctionalSliceIsSliceOfSubVolume ==
  (/\ call.fn = "show_functional_slice"
   /\ call.orientation \in Orientations
   /\ InRange(call.slice_nr, call.image.shape[AxisOf(call.orientation)])
   /\ InRange(call.timepoint, call.image.shape[4])) =>
    LET shp == SubSeq(call.image.shape, 1, 3)
        sub == [shape |-> shp,
                data |-> [idx \in IndexSet(shp) |->
                            call.image.data[idx \o <<call.timepoint>>]]]
        g == _get_slice(sub, call.orientation, call.slice_nr)
    IN /\ outcome = "ok"
       /\ g.status = "ok"
       /\ Cardinality(Positions("imshow")) = 1
       /\ Transpose(Nth("imshow", 1).arg.image) = g.Slice
       /\ Nth("set_xlabel", 1).arg[1] = g.x_lab
       /\ Nth("set_ylabel", 1).arg[1] = g.y_lab

C7_Witness ==
  /\ call.fn = "show_functional_slice"
  /\ call.orientation = "axial"
  /\ call.image.shape = <<1, 2, 2, 2>>
  /\ call.slice_nr = 1
  /\ call.timepoint = 1
  /\ outcome = "ok"
  /\ Nth("imshow", 1).arg.image.shape = <<2, 1>>

\* C8: for a position in range, the series a successful track_voxel call
\* plots has length T and holds image[i,j,k,u] at u, whatever the display
\* timepoint, the colours and the overlay flag are.
C8_TimeSeriesOfVoxel ==
  (TrackedInRange /\ outcome = "ok") =>
    LET T == call.image.shape[4]
    IN /\ Cardinality(Positions("plot")) = 1
       /\ Nth("plot", 1).ax = "axTime"
       /\ Nth("plot", 1).arg.shape = <<T>>
       /\ DOMAIN Nth("plot", 1).arg.data = {<<u>> : u \in 0..(T - 1)}
       /\ \A u \in 0..(T - 1) :
            Nth("plot", 1).arg.data[<<u>>] =
              call.image.data[<<call.ML_position, call.AP_position,
                                call.CC_position, u>>]

C8_Witness ==
  /\ TrackedInRange
  /\ outcome = "ok"
  /\ call.image.shape[4] = 2
  /\ call.slice_timepoint = 1
  /\ ~call.plot_voxel_in_slice
  /\ call.voxel_color = "red"
  /\ call.ML_position # call.AP_position
  /\ Nth("plot", 1).arg.data[<<0>>] # Nth("plot", 1).arg.data[<<1>>]

\* C9: a successful track_voxel call renders exactly three slice panels,
\* sagittal then frontal then axial, each the slice of
\* image[..., slice_timepoint] at ML_position, AP_position and CC_position
\* respectively, and plots the time series after them.
C9_ThreePanelsThenTimeSeries ==
  (call.fn = "track_voxel" /\ outcome = "ok") =>
    LET d == call.image.shape
        t == (call.slice_timepoint + d[4]) % d[4]
        ml == (call.ML_position + d[1]) % d[1]
        ap == (call.AP_position + d[2]) % d[2]
        cc == (call.CC_position + d[3]) % d[3]
        sag == Nth("imshow", 1)
        fro == Nth("imshow", 2)
        axi == Nth("imshow", 3)
    IN /\ Cardinality(Positions("imshow")) = 3
       /\ sag.ax = "axSagit" /\ fro.ax = "axFront" /\ axi.ax = "axAxial"
       /\ Nth("set_title", 1).arg[1] = <<"sagittal", " slice #", call.ML_position>>
       /\ Nth("set_title", 2).arg[1] = <<"frontal", " slice #", call.AP_position>>
       /\ Nth("set_title", 3).arg[1] = <<"axial", " slice #", call.CC_position>>
       /\ sag.arg.image.shape = <<d[3], d[2]>>
       /\ fro.arg.image.shape = <<d[3], d[1]>>
       /\ axi.arg.image.shape = <<d[2], d[1]>>
       /\ \A j \in 0..(d[2] - 1), k \in 0..(d[3] - 1) :
            sag.arg.image.data[<<k, j>>] = call.image.data[<<ml, j, k, t>>]
       /\ \A i \in 0..(d[1] - 1), k \in 0..(d[3] - 1) :
            fro.arg.image.data[<<k, i>>] = call.image.data[<<i, ap, k, t>>]
       /\ \A i \in 0..(d[1] - 1), j \in 0..(d[2] - 1) :
            axi.arg.image.data[<<j, i>>] = call.image.data[<<i, j, cc, t>>]
       /\ Cardinality(Positions("plot")) = 1
       /\ \A n \in Positions("imshow"), q \in Positions("plot") : n < q

C9_Witness ==
  /\ call.fn = "track_voxel"
  /\ outcome = "ok"
  /\ call.image.shape = <<2, 2, 2, 2>>
  /\ call.ML_position = 1
  /\ call.AP_position = 0
  /\ call.CC_position = 1
  /\ call.slice_timepoint = 1
  /\ Cardinality(Positions("imshow")) = 3
  /\ Nth("imshow", 1).arg.image.data[<<0, 0>>] # Nth("imshow", 2).arg.image.data[<<0, 0>>]

\* C10: with the overlay enabled, a position in range and a display
\* timepoint t in range, in each of the three panels the pixel of the
\* displayed (transposed) slice at column = marker x, row = marker y holds
\* image[ML, AP, CC, t].
C10_MarkerLiesOnVoxel ==
  (/\ TrackedInRange
   /\ InRange(call.slice_timepoint, call.image.shape[4])
   /\ call.plot_voxel_in_slice
   /\ outcome = "ok") =>
    \A n \in 1..3 :
      LET img == Nth("imshow", n).arg.image
          mark == Nth("scatter", n).arg
      IN /\ InRange(mark.y, img.shape[1])
         /\ InRange(mark.x, img.shape[2])
         /\ img.data[<<mark.y, mark.x>>] =
              call.image.data[<<call.ML_position, call.AP_position,
                                call.CC_position, call.slice_timepoint>>]

====
